---- MODULE Spec2Model ----
(***************************************************************************)
(* Model of tema1.cpp: a two-phase inverted index.  Mapper threads drain a *)
(* locked queue of file indices, tokenize each file into a local map and   *)
(* merge it into 26 independently locked per-letter tables; reducer        *)
(* threads wait on a barrier shared with the mappers, then copy, sort and  *)
(* write the tables of their letter range.                                 *)
(*                                                                         *)
(* Characters are ASCII codes, strings are sequences of codes.  Threads    *)
(* are numbered as in main(): 0 .. nr_mappers-1 are mappers, the rest are  *)
(* reducers with reducer_id = i - nr_mappers.                              *)
(***************************************************************************)
EXTENDS Integers, Sequences, FiniteSets, TLC

NUM_LETTERS == 26

\* Bounds of the model: the command line and the manifest are drawn from
\* 1..MaxMappers mappers, 1..MaxReducers reducers and 0..MaxFiles files.
MaxMappers == 2
MaxReducers == 2
MaxFiles == 2

Letters == 0 .. (NUM_LETTERS - 1)
Free == -1
EmptyMap == [x \in {} |-> 0]

Min(a, b) == IF a < b THEN a ELSE b

(***************************************************************************)
(* Input files.  A file is [ok, tokens]: ok = FALSE is a path that cannot  *)
(* be opened; tokens are the whitespace-delimited raw tokens of the file.  *)
(* Raw tokens used: "C1b" "cb" "ca" "D" "7".                               *)
(***************************************************************************)
Tok_C1b == <<67, 49, 98>>
Tok_cb == <<99, 98>>
Tok_ca == <<99, 97>>
Tok_D == <<68>>
Tok_7 == <<55>>

NoFile == [ok |-> FALSE, tokens |-> <<>>]

\* "C1b cb D" and "ca 7 cb"
FileA == [ok |-> TRUE, tokens |-> <<Tok_C1b, Tok_cb, Tok_D>>]
FileB == [ok |-> TRUE, tokens |-> <<Tok_ca, Tok_7, Tok_cb>>]

FileChoices == {NoFile, FileA, FileB}

\* Output files.  Creating the file of a letter either succeeds or fails;
\* the runs explored let it fail for the letters a, c and n.
FailingSinks == {0, 2, 13}

(***************************************************************************)
(* Tokenizer                                                               *)
(***************************************************************************)
isalpha(c) == (c \in 65 .. 90) \/ (c \in 97 .. 122)

tolower(c) == IF c \in 65 .. 90 THEN c + 32 ELSE c

clean_word(word) ==
    LET kept == SelectSeq(word, isalpha)
    IN  [i \in 1 .. Len(kept) |-> tolower(kept[i])]

\* local_results[letter_index][word]++
Count(lr, li, w) ==
    LET bucket == IF li \in DOMAIN lr THEN lr[li] ELSE EmptyMap
        n == IF w \in DOMAIN bucket THEN bucket[w] ELSE 0
        bucket2 == [x \in DOMAIN bucket \cup {w} |-> IF x = w THEN n + 1 ELSE bucket[x]]
    IN  [l \in DOMAIN lr \cup {li} |-> IF l = li THEN bucket2 ELSE lr[l]]

\* variant: the bucket is taken from the first character of the raw token
ReadWord_raw(lr, token) ==
    LET word == clean_word(token)
    IN  IF word # <<>>
        THEN LET letter_index == token[1] - 97
             IN  IF letter_index >= 0 /\ letter_index < NUM_LETTERS
                 THEN Count(lr, letter_index, word)
                 ELSE lr
        ELSE lr

\* variant: the bucket is taken from the last character of the word
ReadWord_last(lr, token) ==
    LET word == clean_word(token)
    IN  IF word # <<>>
        THEN LET letter_index == word[Len(word)] - 97
             IN  IF letter_index >= 0 /\ letter_index < NUM_LETTERS
                 THEN Count(lr, letter_index, word)
                 ELSE lr
        ELSE lr

\* the body of the loop "while (file >> word)" for one token
ReadWord(lr, token) ==
    LET word == clean_word(token)
    IN  IF word # <<>>
        THEN LET letter_index == word[1] - 97
             IN  IF letter_index >= 0 /\ letter_index < NUM_LETTERS
                 THEN Count(lr, letter_index, word)
                 ELSE lr
        ELSE lr

RECURSIVE ReadFile(_, _)
ReadFile(lr, tokens) ==
    IF tokens = <<>> THEN lr
    ELSE ReadFile(ReadWord(lr, Head(tokens)), Tail(tokens))

\* the (letter_index, word) pairs the merge loop visits
Entries(lr) == UNION { { <<l, w>> : w \in DOMAIN lr[l] } : l \in DOMAIN lr }

(***************************************************************************)
(* Shard table                                                             *)
(***************************************************************************)
\* variant: the new id always goes to the end
lower_bound_end(ids, v) == Len(ids) + 1

\* std::lower_bound on a sorted vector: first position whose element is >= v
lower_bound(ids, v) ==
    CHOOSE i \in 1 .. (Len(ids) + 1) :
        /\ \A j \in 1 .. (i - 1) : ids[j] < v
        /\ (i = Len(ids) + 1 \/ ids[i] >= v)

\* variant: push_back instead of insert at the lower bound
InsertAt_back(ids, i, v) == Append(ids, v)

InsertAt(ids, i, v) ==
    [j \in 1 .. (Len(ids) + 1) |->
        IF j < i THEN ids[j] ELSE IF j = i THEN v ELSE ids[j - 1]]

\* variant: the 0-based queue index is stored instead of the 1-based id
add_table_index(tbl, word, fid) ==
    IF word \notin DOMAIN tbl
    THEN [w \in DOMAIN tbl \cup {word} |->
             IF w = word THEN [word |-> word, file_ids |-> <<fid>>] ELSE tbl[w]]
    ELSE LET entry == tbl[word]
             it == lower_bound(entry.file_ids, fid)
         IN  IF it = Len(entry.file_ids) + 1 \/ entry.file_ids[it] # fid
             THEN [tbl EXCEPT ![word].file_ids = InsertAt(entry.file_ids, it, fid)]
             ELSE tbl

\* the update add_table performs between lock and unlock
add_table(tbl, word, fid) ==
    IF word \notin DOMAIN tbl
    THEN [w \in DOMAIN tbl \cup {word} |->
             IF w = word THEN [word |-> word, file_ids |-> <<fid + 1>>] ELSE tbl[w]]
    ELSE LET entry == tbl[word]
             file_index == fid + 1
             it == lower_bound(entry.file_ids, file_index)
         IN  IF it = Len(entry.file_ids) + 1 \/ entry.file_ids[it] # file_index
             THEN [tbl EXCEPT ![word].file_ids = InsertAt(entry.file_ids, it, file_index)]
             ELSE tbl

(***************************************************************************)
(* Sorting                                                                 *)
(***************************************************************************)
\* std::string operator<
StringLess(a, b) ==
    \E i \in 1 .. (Min(Len(a), Len(b)) + 1) :
        /\ \A j \in 1 .. (i - 1) : a[j] = b[j]
        /\ \/ (i > Len(a) /\ i <= Len(b))
           \/ (i <= Len(a) /\ i <= Len(b) /\ a[i] < b[i])

\* variant: the comparator looks at the words only
Compare_words(a, b) == StringLess(a.word, b.word)

\* the comparator handed to std::sort
Compare(a, b) ==
    IF Len(a.file_ids) # Len(b.file_ids)
    THEN Len(a.file_ids) > Len(b.file_ids)
    ELSE StringLess(a.word, b.word)

\* std::sort: the arrangement in which no element is preceded by one that
\* compares after it
RECURSIVE Sort(_)
Sort(S) ==
    IF S = {} THEN <<>>
    ELSE LET first == CHOOSE x \in S : \A y \in S \ {x} : ~Compare(y, x)
         IN  <<first>> \o Sort(S \ {first})

(***************************************************************************)
(* State                                                                   *)
(***************************************************************************)
VARIABLES
    nr_mappers,      \* argv[1]
    nr_reducers,     \* argv[2]
    files,           \* the manifest: files[i + 1] is the file of index i
    file_queue,      \* ThreadData.file_queue
    queue_lock,      \* holder of ThreadData.queue_lock, or Free
    table,           \* results[letter].table : word -> WordEntry
    lock,            \* holder of results[letter].lock, or Free
    barrier_count,   \* threads blocked in pthread_barrier_wait
    pc,              \* position of every thread
    file_id,         \* mapper local
    local_results,   \* mapper local
    visited,         \* entries of local_results the merge loop has passed
    current,         \* the entry the merge loop is at
    letter_index,    \* reducer local
    words_array,     \* reducer local
    output,          \* lines of the output file of each letter
    emitted,         \* history: reducers that created the file of each letter
    sink_failed,     \* history: letters whose output file could not be created
    dequeued,        \* history: indices the queue has handed out, in order
    barrier_passes,  \* history: number of times the barrier has released
    part             \* range computation on its own (SpecRange)

vars == <<nr_mappers, nr_reducers, files, file_queue, queue_lock, table, lock,
          barrier_count, pc, file_id, local_results, visited, current,
          letter_index, words_array, output, emitted, sink_failed, dequeued,
          barrier_passes, part>>

Mappers == 0 .. (nr_mappers - 1)
Reducers == nr_mappers .. (nr_mappers + nr_reducers - 1)
Threads == Mappers \cup Reducers
reducer_id(t) == t - nr_mappers

NoEntry == <<-1, <<>>>>
NoPart == [num_reducers |-> 0, rank |-> 0, owners |-> <<>>]

\* main(): the state when the threads are created
Setup(m, r, fs) ==
    /\ nr_mappers = m
    /\ nr_reducers = r
    /\ files = fs
    /\ file_queue = [i \in 1 .. Len(fs) |-> i - 1]
    /\ queue_lock = Free
    /\ table = [l \in Letters |-> EmptyMap]
    /\ lock = [l \in Letters |-> Free]
    /\ barrier_count = 0
    /\ pc = [t \in 0 .. (m + r - 1) |-> IF t < m THEN "m_lock_queue" ELSE "r_start"]
    /\ file_id = [t \in 0 .. (m - 1) |-> -1]
    /\ local_results = [t \in 0 .. (m - 1) |-> EmptyMap]
    /\ visited = [t \in 0 .. (m - 1) |-> {}]
    /\ current = [t \in 0 .. (m - 1) |-> NoEntry]
    /\ letter_index = [t \in m .. (m + r - 1) |-> 0]
    /\ words_array = [t \in m .. (m + r - 1) |-> {}]
    /\ output = [l \in Letters |-> <<>>]
    /\ emitted = [l \in Letters |-> <<>>]
    /\ sink_failed = {}
    /\ dequeued = <<>>
    /\ barrier_passes = 0

Init ==
    /\ \E m \in 1 .. MaxMappers, r \in 1 .. MaxReducers, nr_files \in 0 .. MaxFiles :
          \E fs \in [1 .. nr_files -> FileChoices] : Setup(m, r, fs)
    /\ part = NoPart

fixed == <<nr_mappers, nr_reducers, files, part>>
mapper_locals == <<file_id, local_results, visited, current>>
reducer_locals == <<letter_index, words_array, output, emitted, sink_failed>>
barrier_vars == <<barrier_count, barrier_passes>>

(***************************************************************************)
(* Mapper                                                                  *)
(***************************************************************************)
\* lines 80-91 up to front(): take the queue lock and look at the queue.  A
\* non-empty queue gives file_id = front(); on an empty queue the lock is
\* released at once and the loop is left with file_id = -1.
Dequeue(t, locked) ==
    /\ pc[t] = "m_lock_queue"
    /\ locked
    /\ IF file_queue # <<>>
       THEN /\ file_id' = [file_id EXCEPT ![t] = Head(file_queue)]
            /\ queue_lock' = t
            /\ pc' = [pc EXCEPT ![t] = "m_pop"]
       ELSE /\ file_id' = [file_id EXCEPT ![t] = -1]
            /\ queue_lock' = Free
            /\ pc' = [pc EXCEPT ![t] = "m_barrier"]
    /\ UNCHANGED <<fixed, file_queue, table, lock, barrier_vars, local_results,
                   visited, current, reducer_locals, dequeued>>

\* variant: the queue is entered without waiting for the lock
MapperFront_nowait(t) == Dequeue(t, TRUE)

\* pthread_mutex_lock(&data->queue_lock) returns when the lock is free
MapperFront(t) == Dequeue(t, queue_lock = Free)

\* std::queue::pop
pop(q) == SubSeq(q, 2, Len(q))

\* variant: break instead of continue
OpenFailed_break == "m_barrier"

\* where the loop goes when the file cannot be opened: continue
OpenFailed == "m_lock_queue"

\* the entries the nested range-for may visit after entry cur: the rest of
\* cur's bucket, or any entry of an unvisited bucket once that one is finished
NextEntries(lr, seen, cur) ==
    LET rest == Entries(lr) \ seen
        same == { e \in rest : e[1] = cur[1] }
    IN  IF same # {} THEN same ELSE rest

\* variant: the queue lock is not released after the pop
MapperPop_nounlock(t) ==
    /\ pc[t] = "m_pop"
    /\ file_queue' = pop(file_queue)
    /\ dequeued' = Append(dequeued, file_id[t])
    /\ LET f == files[file_id[t] + 1]
           lr == IF f.ok THEN ReadFile(EmptyMap, f.tokens) ELSE EmptyMap
       IN  /\ local_results' = [local_results EXCEPT ![t] = lr]
           /\ pc' = [pc EXCEPT ![t] =
                        IF ~f.ok THEN OpenFailed
                        ELSE IF Entries(lr) = {} THEN "m_lock_queue"
                        ELSE "m_merge"]
    /\ UNCHANGED <<fixed, queue_lock, table, lock, barrier_vars, file_id, visited,
                   current, reducer_locals>>

\* pop and unlock; then open the file: on failure continue, otherwise read
\* it into local_results and start the merge loop
MapperPop(t) ==
    /\ pc[t] = "m_pop"
    /\ file_queue' = pop(file_queue)
    /\ queue_lock' = Free
    /\ dequeued' = Append(dequeued, file_id[t])
    /\ LET f == files[file_id[t] + 1]
           lr == IF f.ok THEN ReadFile(EmptyMap, f.tokens) ELSE EmptyMap
       IN  /\ local_results' = [local_results EXCEPT ![t] = lr]
           /\ pc' = [pc EXCEPT ![t] =
                        IF ~f.ok THEN OpenFailed
                        ELSE IF Entries(lr) = {} THEN "m_lock_queue"
                        ELSE "m_merge"]
    /\ UNCHANGED <<fixed, table, lock, barrier_vars, file_id, visited, current,
                   reducer_locals>>

\* variant: add_table is entered without waiting for the shard lock
MapperLockShard_nowait(t) ==
    /\ pc[t] = "m_merge"
    /\ \E e \in NextEntries(local_results[t], visited[t], current[t]) :
          /\ lock' = [lock EXCEPT ![e[1]] = t]
          /\ current' = [current EXCEPT ![t] = e]
    /\ pc' = [pc EXCEPT ![t] = "m_add"]
    /\ UNCHANGED <<fixed, file_queue, queue_lock, table, barrier_vars,
                   file_id, local_results, visited, reducer_locals, dequeued>>

\* advance the merge loop and enter add_table: pthread_mutex_lock(&result.lock)
MapperLockShard(t) ==
    /\ pc[t] = "m_merge"
    /\ \E e \in NextEntries(local_results[t], visited[t], current[t]) :
          /\ lock[e[1]] = Free
          /\ lock' = [lock EXCEPT ![e[1]] = t]
          /\ current' = [current EXCEPT ![t] = e]
    /\ pc' = [pc EXCEPT ![t] = "m_add"]
    /\ UNCHANGED <<fixed, file_queue, queue_lock, table, barrier_vars,
                   file_id, local_results, visited, reducer_locals, dequeued>>

\* variant: the shard lock is kept while words of the same letter remain
MapperAdd_keep(t) ==
    /\ pc[t] = "m_add"
    /\ LET l == current[t][1]
           w == current[t][2]
           seen == visited[t] \cup {current[t]}
           next == NextEntries(local_results[t], seen, current[t])
           last == next = {}
       IN  /\ table' = [table EXCEPT ![l] = add_table(table[l], w, file_id[t])]
           /\ lock' = [lock EXCEPT ![l] =
                          IF \E e \in next : e[1] = l THEN t ELSE Free]
           /\ visited' = [visited EXCEPT ![t] = IF last THEN {} ELSE seen]
           /\ local_results' = [local_results EXCEPT ![t] = IF last THEN EmptyMap ELSE @]
           /\ current' = [current EXCEPT ![t] = IF last THEN NoEntry ELSE @]
           /\ pc' = [pc EXCEPT ![t] = IF last THEN "m_lock_queue" ELSE "m_merge"]
    /\ UNCHANGED <<fixed, file_queue, queue_lock, barrier_vars, file_id,
                   reducer_locals, dequeued>>

\* the body of add_table and pthread_mutex_unlock(&result.lock); after the
\* last entry local_results goes out of scope and the outer loop iterates
MapperAdd(t) ==
    /\ pc[t] = "m_add"
    /\ LET l == current[t][1]
           w == current[t][2]
           seen == visited[t] \cup {current[t]}
           last == NextEntries(local_results[t], seen, current[t]) = {}
       IN  /\ table' = [table EXCEPT ![l] = add_table(table[l], w, file_id[t])]
           /\ lock' = [lock EXCEPT ![l] = Free]
           /\ visited' = [visited EXCEPT ![t] = IF last THEN {} ELSE seen]
           /\ local_results' = [local_results EXCEPT ![t] = IF last THEN EmptyMap ELSE @]
           /\ current' = [current EXCEPT ![t] = IF last THEN NoEntry ELSE @]
           /\ pc' = [pc EXCEPT ![t] = IF last THEN "m_lock_queue" ELSE "m_merge"]
    /\ UNCHANGED <<fixed, file_queue, queue_lock, barrier_vars, file_id,
                   reducer_locals, dequeued>>

(***************************************************************************)
(* Barrier and reducer range                                               *)
(***************************************************************************)
\* variant: every range starts at a multiple of the rounded-down share
start_index_share(rid, num_reducers) ==
    rid * (NUM_LETTERS \div num_reducers)

start_index(rid, num_reducers) ==
    (rid * NUM_LETTERS) \div num_reducers

\* variant: the last letter of every range is left out
end_index_short(rid, num_reducers) ==
    Min(NUM_LETTERS, ((rid + 1) * NUM_LETTERS) \div num_reducers) - 1

\* variant: the share is rounded down before it is multiplied
end_index_share(rid, num_reducers) ==
    Min(NUM_LETTERS, (rid + 1) * (NUM_LETTERS \div num_reducers))

end_index(rid, num_reducers) ==
    Min(NUM_LETTERS, ((rid + 1) * NUM_LETTERS) \div num_reducers)

\* position after the loop test "letter_index < end_index"
LoopTest(t, li) ==
    IF li < end_index(reducer_id(t), nr_reducers) THEN "r_lock" ELSE "done"

\* variant: the barrier is sized for the reducers only
BarrierCount_reducers == nr_reducers

\* variant: the barrier also counts the main thread, which never arrives
BarrierCount_main == nr_mappers + nr_reducers + 1

\* variant: the barrier is sized for the mappers only
BarrierCount_mappers == nr_mappers

\* pthread_barrier_init(&barrier, nullptr, nr_mappers + nr_reducers)
BarrierCount == nr_mappers + nr_reducers

\* pthread_barrier_wait: the caller blocks; the call that completes the count
\* releases every blocked thread and resets the barrier.  A released mapper
\* deletes its arguments and returns; a released reducer computes its range
\* and enters its loop.
BarrierWait(t) ==
    LET waiting == [pc EXCEPT ![t] = IF t \in Mappers THEN "m_wait" ELSE "r_wait"]
    IN  IF barrier_count + 1 = BarrierCount
        THEN /\ barrier_count' = 0
             /\ barrier_passes' = barrier_passes + 1
             /\ pc' = [u \in Threads |->
                          IF waiting[u] = "m_wait" THEN "done"
                          ELSE IF waiting[u] = "r_wait"
                               THEN LoopTest(u, start_index(reducer_id(u), nr_reducers))
                               ELSE waiting[u]]
             /\ letter_index' = [u \in Reducers |->
                          IF waiting[u] = "r_wait"
                          THEN start_index(reducer_id(u), nr_reducers)
                          ELSE letter_index[u]]
        ELSE /\ barrier_count' = barrier_count + 1
             /\ pc' = waiting
             /\ UNCHANGED <<barrier_passes, letter_index>>

\* line 124
MapperArrive(t) ==
    /\ pc[t] = "m_barrier"
    /\ BarrierWait(t)
    /\ UNCHANGED <<fixed, file_queue, queue_lock, table, lock, mapper_locals,
                   words_array, output, emitted, sink_failed, dequeued>>

(***************************************************************************)
(* Reducer                                                                 *)
(***************************************************************************)
\* line 136
ReducerArrive(t) ==
    /\ pc[t] = "r_start"
    /\ BarrierWait(t)
    /\ UNCHANGED <<fixed, file_queue, queue_lock, table, lock, mapper_locals,
                   words_array, output, emitted, sink_failed, dequeued>>

\* pthread_mutex_lock(&data->results[letter_index].lock)
ReducerLock(t) ==
    /\ pc[t] = "r_lock"
    /\ lock[letter_index[t]] = Free
    /\ lock' = [lock EXCEPT ![letter_index[t]] = t]
    /\ words_array' = [words_array EXCEPT ![t] = {}]
    /\ pc' = [pc EXCEPT ![t] = "r_copy"]
    /\ UNCHANGED <<fixed, file_queue, queue_lock, table, barrier_vars,
                   mapper_locals, letter_index, output, emitted, sink_failed, dequeued>>

\* copy every entry of the table and unlock; sort; create the output file
\* and write one line per entry; next letter
ReducerEmit(t) ==
    /\ pc[t] = "r_copy"
    /\ LET l == letter_index[t]
           copy == { table[l][w] : w \in DOMAIN table[l] }
       IN  /\ words_array' = [words_array EXCEPT ![t] = copy]
           /\ lock' = [lock EXCEPT ![l] = Free]
           /\ output' = [output EXCEPT ![l] = Sort(copy)]
           /\ emitted' = [emitted EXCEPT ![l] = Append(emitted[l], t)]
           /\ letter_index' = [letter_index EXCEPT ![t] = l + 1]
           /\ pc' = [pc EXCEPT ![t] = LoopTest(t, l + 1)]
    /\ UNCHANGED <<fixed, file_queue, queue_lock, table, barrier_vars,
                   mapper_locals, sink_failed, dequeued>>

\* variant: the failing reducer ends the whole process, as exit() would
ReducerSinkFails_exit(t) ==
    /\ pc[t] = "r_copy"
    /\ letter_index[t] \in FailingSinks
    /\ lock' = [lock EXCEPT ![letter_index[t]] = Free]
    /\ sink_failed' = sink_failed \cup {letter_index[t]}
    /\ pc' = [u \in Threads |-> "done"]
    /\ UNCHANGED <<fixed, file_queue, queue_lock, table, barrier_vars,
                   mapper_locals, letter_index, words_array, output, emitted, dequeued>>

\* variant: the early return leaves the shard lock locked
ReducerSinkFails_held(t) ==
    /\ pc[t] = "r_copy"
    /\ letter_index[t] \in FailingSinks
    /\ sink_failed' = sink_failed \cup {letter_index[t]}
    /\ pc' = [pc EXCEPT ![t] = "done"]
    /\ UNCHANGED <<fixed, file_queue, queue_lock, table, lock, barrier_vars,
                   mapper_locals, letter_index, words_array, output, emitted, dequeued>>

\* copy every entry of the table and unlock; sort; the output file cannot
\* be created: delete args; return
ReducerSinkFails(t) ==
    /\ pc[t] = "r_copy"
    /\ letter_index[t] \in FailingSinks
    /\ LET l == letter_index[t]
           copy == { table[l][w] : w \in DOMAIN table[l] }
       IN  /\ words_array' = [words_array EXCEPT ![t] = copy]
           /\ lock' = [lock EXCEPT ![l] = Free]
    /\ sink_failed' = sink_failed \cup {letter_index[t]}
    /\ pc' = [pc EXCEPT ![t] = "done"]
    /\ UNCHANGED <<fixed, file_queue, queue_lock, table, barrier_vars,
                   mapper_locals, letter_index, output, emitted, dequeued>>

Next ==
    \/ \E t \in Mappers : MapperFront(t)
    \/ \E t \in Mappers : MapperPop(t)
    \/ \E t \in Mappers : MapperLockShard(t)
    \/ \E t \in Mappers : MapperAdd(t)
    \/ \E t \in Mappers : MapperArrive(t)
    \/ \E t \in Reducers : ReducerArrive(t)
    \/ \E t \in Reducers : ReducerLock(t)
    \/ \E t \in Reducers : ReducerEmit(t)
    \/ \E t \in Reducers : ReducerSinkFails(t)

Spec == Init /\ [][Next]_vars

\* Every step of the program is a step of some thread, and a scheduler that
\* is fair to the threads never leaves all runnable threads waiting.
FairSpec == Spec /\ WF_vars(Next)

(***************************************************************************)
(* The range computation of lines 139-142 on its own, for every            *)
(* nr_reducers in 1 .. NUM_LETTERS: reducer ranks are taken in turn and    *)
(* each letter of the rank's loop is recorded with the rank as owner.      *)
(***************************************************************************)
pipeline_vars == <<nr_mappers, nr_reducers, files, file_queue, queue_lock,
                   table, lock, barrier_count, pc, file_id, local_results,
                   visited, current, letter_index, words_array, output,
                   emitted, sink_failed, dequeued, barrier_passes>>

RangeInit ==
    /\ Setup(1, 1, <<>>)
    /\ \E r \in 1 .. NUM_LETTERS :
          part = [num_reducers |-> r, rank |-> 0, owners |-> [l \in Letters |-> <<>>]]

AssignRange ==
    /\ part.rank < part.num_reducers
    /\ LET mine == { l \in Letters :
                       /\ l >= start_index(part.rank, part.num_reducers)
                       /\ l < end_index(part.rank, part.num_reducers) }
       IN  part' = [part EXCEPT
                      !.rank = @ + 1,
                      !.owners = [l \in Letters |->
                                    IF l \in mine THEN Append(@[l], part.rank) ELSE @[l]]]
    /\ UNCHANGED pipeline_vars

RangeNext == AssignRange

SpecRange == RangeInit /\ [][RangeNext]_vars

(***************************************************************************)
(* Properties                                                              *)
(***************************************************************************)
\* a mapper that has left its loop: it does not dequeue or write again
MapperFinished(m) == pc[m] \in {"m_barrier", "m_wait", "done"}
MapPhaseOver == \A m \in Mappers : MapperFinished(m)
BarrierReleased == barrier_passes > 0
AllDone == \A t \in Threads : pc[t] = "done"

\* C1: a reducer that has entered its loop, and so locks and copies shards,
\* does so only when every mapper has left its loop; and once the barrier
\* has released no step changes any shard table.
C1_BarrierOrdersPhases ==
    [][ /\ \A r \in Reducers :
              pc[r] \in {"r_lock", "r_copy"} => MapPhaseOver
        /\ BarrierReleased => table' = table ]_vars

\* a reducer is copying a shard that mappers have filled, two of each kind
C1_Witness ==
    /\ nr_mappers = 2
    /\ nr_reducers = 2
    /\ \E r \in Reducers :
          pc[r] = "r_copy" /\ table[letter_index[r]] # EmptyMap

\* number of dequeues that returned index i
Returned(i) == Cardinality({ k \in 1 .. Len(dequeued) : dequeued[k] = i })

\* C2: no file index is ever returned by two dequeues, and once every
\* mapper has left its loop the queue is empty and every index of the
\* manifest has been returned exactly once.
C2_QueueDrain ==
    /\ \A j, k \in 1 .. Len(dequeued) : j # k => dequeued[j] # dequeued[k]
    /\ MapPhaseOver =>
          /\ file_queue = <<>>
          /\ Len(dequeued) = Len(files)
          /\ \A i \in 0 .. (Len(files) - 1) : Returned(i) = 1

\* two mappers have drained a queue of two files
C2_Witness ==
    /\ MapPhaseOver
    /\ nr_mappers = 2
    /\ Len(dequeued) = 2

\* C3: under fair scheduling every thread eventually terminates.
C3_Terminates == <>AllDone

\* a finished run with fewer files than mappers, one of them unopenable
C3_Witness ==
    /\ AllDone
    /\ Len(files) < nr_mappers
    /\ \E i \in 1 .. Len(files) : ~files[i].ok

\* every letter's file was created exactly once, and the file of a letter
\* without words has no lines
AllArtifactsOnce ==
    \A l \in Letters :
        /\ Len(emitted[l]) = 1
        /\ table[l] = EmptyMap => output[l] = <<>>

Words(f) == { clean_word(f.tokens[k]) : k \in 1 .. Len(f.tokens) } \ {<<>>}

\* the words a manifest contributes for its file of 1-based id i
WordsOf(fs, i) == IF fs[i].ok THEN Words(fs[i]) ELSE {}
FileWords(i) == WordsOf(files, i)
AllWords == UNION { FileWords(i) : i \in 1 .. Len(files) }
LetterOf(w) == w[1] - 97

RECURSIVE Ascending(_)
Ascending(S) ==
    IF S = {} THEN <<>>
    ELSE LET least == CHOOSE x \in S : \A y \in S : x <= y
         IN  <<least>> \o Ascending(S \ {least})

\* the index of a manifest: per letter, every word of that letter with the
\* ascending ids of the files that contain it
IndexOf(fs) ==
    LET all == UNION { WordsOf(fs, i) : i \in 1 .. Len(fs) }
    IN  [l \in Letters |->
            [w \in { v \in all : LetterOf(v) = l } |->
                [word |-> w,
                 file_ids |-> Ascending({ i \in 1 .. Len(fs) : w \in WordsOf(fs, i) })]]]

\* the manifest with every unopenable file replaced by an empty file
AsIfEmpty(fs) ==
    [i \in 1 .. Len(fs) |-> IF fs[i].ok THEN fs[i] ELSE [ok |-> TRUE, tokens |-> <<>>]]

\* the lines of letter l's output file that carry word w
Lines(w, l) == { k \in 1 .. Len(output[l]) : output[l][k].word = w }
Created(l) == emitted[l] # <<>>
Occurrences(ids, i) == Cardinality({ j \in 1 .. Len(ids) : ids[j] = i })
StrictlyIncreasing(ids) == \A j \in 1 .. (Len(ids) - 1) : ids[j] < ids[j + 1]

C6_OneIdPerFile ==
    AllDone =>
        \A i \in 1 .. Len(files) : \A w \in FileWords(i) :
            Created(LetterOf(w)) =>
                /\ Lines(w, LetterOf(w)) # {}
                /\ \A k \in Lines(w, LetterOf(w)) :
                      Occurrences(output[LetterOf(w)][k].file_ids, i) = 1

\* the first file holds "cb" twice ("C1b" and "cb") and the created file of
\* letter c lists it with id 1
C6_Witness ==
    /\ AllDone
    /\ Len(files) >= 1
    /\ files[1] = FileA
    /\ \E k \in Lines(Tok_cb, 2) : Occurrences(output[2][k].file_ids, 1) = 1

\* C7: every id list in every shard table and on every written line is
\* strictly increasing.
C7_IdsStrictlyIncreasing ==
    /\ \A l \in Letters : \A w \in DOMAIN table[l] :
          StrictlyIncreasing(table[l][w].file_ids)
    /\ \A l \in Letters : \A k \in 1 .. Len(output[l]) :
          StrictlyIncreasing(output[l][k].file_ids)

\* a word has both ids while the mapper of the first file is still merging:
\* ids reach the table from two threads in either order
C7_Witness ==
    \E m \in Mappers :
        /\ pc[m] = "m_merge"
        /\ file_id[m] = 0
        /\ \E e \in visited[m] :
              /\ e[2] \in DOMAIN table[e[1]]
              /\ table[e[1]][e[2]].file_ids = <<1, 2>>

\* the order the output must have between one line and the next
InOrder(a, b) ==
    \/ Len(a.file_ids) > Len(b.file_ids)
    \/ Len(a.file_ids) = Len(b.file_ids) /\ StringLess(a.word, b.word)

\* C8: in every output file each line and its successor are in order:
\* more ids first, and for equal numbers of ids the smaller word first.
C8_SortOrder ==
    \A l \in Letters : \A k \in 1 .. (Len(output[l]) - 1) :
        InOrder(output[l][k], output[l][k + 1])

\* a file whose first line has more ids and the larger word
C8_Witness ==
    \E l \in Letters :
        /\ Len(output[l]) >= 2
        /\ Len(output[l][1].file_ids) > Len(output[l][2].file_ids)
        /\ StringLess(output[l][2].word, output[l][1].word)

\* C9: for every nr_reducers in 1 .. 26 no letter is in the range of two
\* ranks, and when all ranks are taken every letter is in exactly one.
C9_Partition ==
    /\ \A l \in DOMAIN part.owners : Len(part.owners[l]) <= 1
    /\ part.rank = part.num_reducers =>
          \A l \in DOMAIN part.owners : Len(part.owners[l]) = 1

\* four reducers, ranges of unequal size, all assigned
C9_Witness ==
    /\ part.num_reducers = 4
    /\ part.rank = 4
    /\ part.owners[6] = <<1>>
    /\ part.owners[25] = <<3>>

\* C10: an unopenable file leaves no id in any table; the mapper that got
\* it is back at the head of its loop with the slot gone from the queue;
\* and at the end every slot has been handed out and the tables are the
\* index of the manifest in which the unopenable files are empty files.
C10_OpenFailureIsEmptyFile ==
    /\ \A l \in Letters : \A w \in DOMAIN table[l] :
          \A j \in 1 .. Len(table[l][w].file_ids) :
              LET i == table[l][w].file_ids[j]
              IN  i \in 1 .. Len(files) /\ files[i].ok
    /\ \A m \in Mappers :
          (file_id[m] >= 0 /\ ~files[file_id[m] + 1].ok /\ pc[m] # "m_pop") =>
              /\ pc[m] = "m_lock_queue"
              /\ local_results[m] = EmptyMap
              /\ \A k \in 1 .. Len(file_queue) : file_queue[k] # file_id[m]
    /\ AllDone =>
          /\ Len(dequeued) = Len(files)
          /\ table = IndexOf(AsIfEmpty(files))

\* a finished run of one mapper: the first file could not be opened, the
\* second one was read and indexed
C10_Witness ==
    /\ AllDone
    /\ nr_mappers = 1
    /\ Len(files) = 2
    /\ ~files[1].ok
    /\ files[2].ok
    /\ table[2] # EmptyMap

\* the letters of the loop of reducer r
RangeOf(r) ==
    { l \in Letters :
        /\ l >= start_index(reducer_id(r), nr_reducers)
        /\ l < end_index(reducer_id(r), nr_reducers) }

\* C11: a reducer that has returned has written the file of every letter of
\* its range except those whose file could not be created.
C11_ContinuesAfterSinkFailure ==
    \A r \in Reducers :
        pc[r] = "done" =>
            \A l \in RangeOf(r) : l \notin sink_failed => Created(l)

\* the entries the file of letter l must carry, from the manifest alone
ExpectedEntries(l) ==
    LET idx == IndexOf(AsIfEmpty(files))[l]
    IN  { idx[w] : w \in DOMAIN idx }

WrittenEntries(l) == { output[l][k] : k \in 1 .. Len(output[l]) }

\* the holder of lock k: a shard lock, or the queue lock for k = 26
Holder(k) == IF k = NUM_LETTERS THEN queue_lock ELSE lock[k]

\* the locks that are held, and those thread t holds
Locked == { k \in 0 .. NUM_LETTERS : Holder(k) # Free }
Held(t) == { k \in Locked : Holder(k) = t }

\* C12: after a sink failure, a reducer in whose range no sink failed has,
\* when it returns, written every file of its range once with exactly the
\* entries of the manifest; every thread has returned, or is inside a
\* critical section it will leave, or is about to take a lock that is
\* free; and no lock is held by a returned thread.
C12_FailureIsLocal ==
    sink_failed # {} =>
        /\ \A r \in Reducers :
              (pc[r] = "done" /\ RangeOf(r) \cap sink_failed = {}) =>
                  \A l \in RangeOf(r) :
                      /\ emitted[l] = <<r>>
                      /\ WrittenEntries(l) = ExpectedEntries(l)
                      /\ Len(output[l]) = Cardinality(ExpectedEntries(l))
        /\ \A t \in Threads :
              \/ pc[t] = "done"
              \/ pc[t] = "r_copy"
              \/ pc[t] = "r_lock" /\ lock[letter_index[t]] = Free
        /\ \A k \in Locked : pc[Holder(k)] # "done"

\* the second reducer failed on its first letter; the first one has written
\* the file of letter c with two words
C12_Witness ==
    /\ AllDone
    /\ nr_reducers = 2
    /\ sink_failed = {13}
    /\ Len(output[2]) = 2
    /\ emitted[12] # <<>>

\* C13: the comparator orders any two distinct entries of a shard about to
\* be sorted one way and not the other, and when the run has terminated
\* without sink failure every output file is the one sequence the manifest
\* alone determines:
\* exactly the entries of the manifest, each once, every line before its
\* successor in the comparator's order.
C13_Deterministic ==
    /\ \A r \in Reducers :
          pc[r] = "r_copy" =>
              LET shard == table[letter_index[r]]
              IN  \A v, w \in DOMAIN shard :
                      v # w => (Compare(shard[v], shard[w]) # Compare(shard[w], shard[v]))
    /\ (AllDone /\ sink_failed = {}) =>
          \A l \in Letters :
              /\ WrittenEntries(l) = ExpectedEntries(l)
              /\ Len(output[l]) = Cardinality(ExpectedEntries(l))
              /\ \A k \in 1 .. (Len(output[l]) - 1) :
                    InOrder(output[l][k], output[l][k + 1])

\* two mappers and two reducers have finished over "ca 7 cb" and "C1b cb D":
\* whichever mapper merged first, the file of c reads cb:[1 2], ca:[1]
C13_Witness ==
    /\ AllDone
    /\ sink_failed = {}
    /\ nr_mappers = 2
    /\ nr_reducers = 2
    /\ files = <<FileB, FileA>>
    /\ output[2] = << [word |-> Tok_cb, file_ids |-> <<1, 2>>],
                     [word |-> Tok_ca, file_ids |-> <<1>>] >>

\* mapper m takes a shard lock in this step
LocksShard(m) == pc[m] = "m_merge" /\ pc'[m] = "m_add"

\* mapper m leaves add_table in this step
LeavesAddTable(m) == pc[m] = "m_add" /\ pc'[m] # "m_add"

\* C14 as stated: while merging one file a mapper never takes the lock of a
\* shard it has already taken for an earlier word of that file.
C14_OneLockPerLetter ==
    [][ \A m \in Mappers :
            LocksShard(m) =>
                \A e \in visited[m] : e[1] # current'[m][1] ]_vars

\* C14 amended: while merging one file a mapper takes a shard lock once for
\* every (letter, word) entry of the file and never twice for the same
\* entry; the lock is free when taken and free again when add_table is
\* left; one critical section changes the entry of that one word only; and
\* the merge of a file ends when every entry has had its critical section.
C14_OneLockPerWord ==
    [][ \A m \in Mappers :
            /\ LocksShard(m) =>
                  /\ current'[m] \in Entries(local_results[m]) \ visited[m]
                  /\ lock[current'[m][1]] = Free
                  /\ lock'[current'[m][1]] = m
            /\ LeavesAddTable(m) =>
                  LET l == current[m][1]
                      w == current[m][2]
                  IN  /\ lock[l] = m
                      /\ lock'[l] = Free
                      /\ \A k \in Letters \ {l} : table'[k] = table[k]
                      /\ DOMAIN table'[l] = DOMAIN table[l] \cup {w}
                      /\ \A v \in DOMAIN table[l] \ {w} : table'[l][v] = table[l][v]
                      /\ pc'[m] = "m_lock_queue" =>
                            visited[m] \cup {current[m]} = Entries(local_results[m]) ]_vars

\* a mapper is between two words of letter c of its file, the first one
\* merged and the lock released, while the other mapper holds that lock
C14_Witness ==
    \E m, n \in Mappers :
        /\ m # n
        /\ pc[m] = "m_merge"
        /\ \E e \in visited[m] : e[1] = 2
        /\ \E e \in Entries(local_results[m]) \ visited[m] : e[1] = 2
        /\ pc[n] = "m_add"
        /\ lock[2] = n

\* the lock whose critical section thread t is in: a letter, 26 for the
\* queue lock, -1 for none
Inside(t) ==
    IF t \in Mappers
    THEN IF pc[t] = "m_add" THEN current[t][1]
         ELSE IF pc[t] = "m_pop" THEN NUM_LETTERS ELSE -1
    ELSE IF pc[t] = "r_copy" THEN letter_index[t] ELSE -1

\* C15: no two threads are between lock and unlock of the same shard, or
\* of the queue; the thread that is there is the recorded holder and every
\* recorded holder is there; a step that changes a shard's table is taken
\* by a mapper inside add_table on that shard and changes no other shard;
\* a step that pops the queue is taken by the mapper inside the queue's
\* critical section.
C15_MutualExclusion ==
    [][ /\ \A t \in Threads :
              Inside(t) # -1 =>
                  /\ Holder(Inside(t)) = t
                  /\ \A u \in Threads \ {t} : Inside(u) # Inside(t)
        /\ \A k \in 0 .. NUM_LETTERS : Holder(k) # Free => Inside(Holder(k)) = k
        /\ table' # table =>
              \E m \in Mappers :
                  /\ pc[m] = "m_add"
                  /\ pc'[m] # "m_add"
                  /\ lock[current[m][1]] = m
                  /\ table' = [table EXCEPT ![current[m][1]] = table'[current[m][1]]]
        /\ file_queue' # file_queue =>
              \E m \in Mappers :
                  /\ pc[m] = "m_pop"
                  /\ pc'[m] # "m_pop"
                  /\ queue_lock = m ]_vars

\* one mapper is inside add_table on shard c while the other one, whose
\* next word is of letter c as well, waits for the lock
C15_Witness ==
    \E m, n \in Mappers :
        /\ m # n
        /\ pc[m] = "m_add"
        /\ current[m][1] = 2
        /\ pc[n] = "m_merge"
        /\ \A e \in NextEntries(local_results[n], visited[n], current[n]) : e[1] = 2

\* thread t has called pthread_barrier_wait
Arrived(t) == pc[t] \in {"m_wait", "r_wait", "r_lock", "r_copy", "done"}

\* thread t has returned from pthread_barrier_wait
Released(t) == pc[t] \in {"r_lock", "r_copy", "done"}

\* C16: the barrier releases at most once, and once when the run is over;
\* the threads blocked in it are counted exactly; nobody is past it unless
\* all nr_mappers + nr_reducers threads have arrived; a thread that has
\* arrived never arrives again; a mapper that has arrived never changes the
\* queue or a table; and a reducer holds or copies a shard only after it
\* has arrived.
C16_BarrierOnce ==
    [][ /\ barrier_passes <= 1
        /\ AllDone => barrier_passes = 1
        /\ barrier_passes = 0 =>
              barrier_count = Cardinality({ t \in Threads : Arrived(t) })
        /\ (\E t \in Threads : Released(t)) =>
              /\ barrier_passes = 1
              /\ \A u \in Threads : Arrived(u)
        /\ \A t \in Threads : Arrived(t) => Arrived(t)'
        /\ (\A m \in Mappers : Arrived(m)) =>
              /\ file_queue' = file_queue
              /\ table' = table
        /\ \A r \in Reducers :
              ~Arrived(r) => /\ words_array[r] = {}
                             /\ \A l \in Letters : lock[l] # r ]_vars

\* two mappers and two reducers: three are blocked in the barrier and the
\* last mapper, with shards filled, is about to arrive
C16_Witness ==
    /\ nr_mappers = 2
    /\ nr_reducers = 2
    /\ barrier_count = 3
    /\ barrier_passes = 0
    /\ \E m \in Mappers : pc[m] = "m_barrier"
    /\ table[2] # EmptyMap

\* C17: a mapper that has built a file's local map and is outside
\* add_table, a mapper at the head of its loop, a thread that has not yet
\* reached, or is blocked in, the barrier, a reducer between two letters and
\* a thread that has returned hold no lock; in particular a reducer that
\* returned because a file could not be created left that shard unlocked.
C17_NoLockOutsideCriticalSections ==
    /\ \A k \in Locked :
          pc[Holder(k)] \notin {"m_lock_queue", "m_merge", "m_barrier", "m_wait",
                                "r_start", "r_wait", "r_lock", "done"}
    /\ \A r \in Reducers :
          (pc[r] = "done" /\ letter_index[r] \in sink_failed) =>
              lock[letter_index[r]] = Free

\* a reducer has returned on the failed sink of letter c, whose shard holds
\* words, while the other reducer is inside a critical section
C17_Witness ==
    \E r, q \in Reducers :
        /\ pc[r] = "done"
        /\ letter_index[r] = 2
        /\ 2 \in sink_failed
        /\ table[2] # EmptyMap
        /\ pc[q] = "r_copy"

\* the letters the range computation gave to rank i
Owned(i) == { l \in Letters : part.owners[l] # <<>> /\ part.owners[l][1] = i }

\* C18: for every nr_reducers in 1 .. 26, when all ranks are taken every
\* rank's letters are a non-empty interval, the numbers of letters of any
\* two ranks differ by at most one, and with 26 reducers rank i has
\* exactly letter i.
C18_EvenRanges ==
    part.rank = part.num_reducers =>
        LET Ranks == 0 .. (part.num_reducers - 1)
        IN  /\ \A i \in Ranks :
                  /\ Owned(i) # {}
                  /\ \A a, b \in Owned(i) : \A l \in a .. b : l \in Owned(i)
            /\ \A i, j \in Ranks :
                  Cardinality(Owned(i)) - Cardinality(Owned(j)) \in {-1, 0, 1}
            /\ part.num_reducers = NUM_LETTERS =>
                  \A i \in Ranks : Owned(i) = {i}

\* seven reducers, all ranges assigned: ranges of three and of four letters
C18_Witness ==
    /\ part.num_reducers = 7
    /\ part.rank = 7
    /\ Cardinality(Owned(0)) = 3
    /\ Cardinality(Owned(1)) = 4

\* C19: every id k in the list of word w in shard l is the id of a file
\* of the manifest that could be opened and holds w as a cleaned word, and
\* l is the letter of w; and no step removes a word from a shard or an id
\* from a list.
C19_Soundness ==
    [][ \A l \in Letters : \A w \in DOMAIN table[l] :
            LET ids == table[l][w].file_ids
            IN  /\ LetterOf(w) = l
                /\ table[l][w].word = w
                /\ \A j \in 1 .. Len(ids) :
                      /\ ids[j] \in 1 .. Len(files)
                      /\ files[ids[j]].ok
                      /\ w \in FileWords(ids[j])
                /\ w \in DOMAIN table'[l]
                /\ \A j \in 1 .. Len(ids) :
                      \E i \in 1 .. Len(table'[l][w].file_ids) :
                          table'[l][w].file_ids[i] = ids[j] ]_vars

\* mid map phase: "cb" carries the ids of both files while the mapper of
\* the second file still has "ca" to merge
C19_Witness ==
    /\ files = <<FileA, FileB>>
    /\ Tok_cb \in DOMAIN table[2]
    /\ table[2][Tok_cb].file_ids = <<1, 2>>
    /\ Tok_ca \notin DOMAIN table[2]
    /\ \E m \in Mappers : pc[m] = "m_merge" /\ file_id[m] = 1

\* C20: no two held locks have the same holder, and no holder of a lock
\* is at a step that waits for a lock (the head of the mapper's loop, the
\* entry of add_table, the reducer's lock).
C20_NoNestedLocking ==
    /\ \A j, k \in Locked : j # k => Holder(j) # Holder(k)
    /\ \A k \in Locked : pc[Holder(k)] \notin {"m_lock_queue", "m_merge", "r_lock"}

\* one mapper holds the queue lock while the other holds a shard lock
C20_Witness ==
    \E m, n \in Mappers :
        /\ m # n
        /\ Held(m) = {NUM_LETTERS}
        /\ Held(n) = {2}

====
